---- MODULE Spec2Model ----
(***************************************************************************)
(* State-machine model of trading_system.core.strategy                     *)
(* (TrendContinuationStrategy) and of the indicator arithmetic it runs.    *)
(*                                                                         *)
(* Prices are whole numbers of ticks and every derived quantity (EMA, ATR, *)
(* ADX, stop levels) is an exact fraction [n, d] in lowest terms; the      *)
(* floating point special values the pandas code can produce are kept:     *)
(* NaN is [n |-> 0, d |-> 0], +inf is [n |-> 1, d |-> 0] and -inf is       *)
(* [n |-> -1, d |-> 0].  Rounding of binary floating point is not          *)
(* modelled.                                                               *)
(*                                                                         *)
(* A DataFrame is [cols, rows]: the set of columns it carries and its      *)
(* bars in time order.  A function that can raise returns either           *)
(* [kind |-> "ok", val |-> v] or [kind |-> "raise", exc |-> e].            *)
(***************************************************************************)
EXTENDS Integers, Sequences, FiniteSets, TLC

VARIABLES config, trend_cache, active_signals, last, calls, inflight, app

vars == <<config, trend_cache, active_signals, last, calls, inflight, app>>

(***************************************************************************)
(* Exact arithmetic with the float special values.                         *)
(***************************************************************************)
Abs(i) == IF i < 0 THEN -i ELSE i

Sign(i) == IF i < 0 THEN -1 ELSE IF i > 0 THEN 1 ELSE 0

MaxInt(a, b) == IF a < b THEN b ELSE a

RECURSIVE Gcd(_, _)
Gcd(a, b) == IF b = 0 THEN a ELSE Gcd(b, a % b)

NaN == [n |-> 0, d |-> 0]

PosInf == [n |-> 1, d |-> 0]

NegInf == [n |-> -1, d |-> 0]

Frac(n, d) ==
    IF d = 0 THEN [n |-> Sign(n), d |-> 0]
    ELSE LET g == Gcd(Abs(n), Abs(d))
             s == Sign(d)
         IN  [n |-> (s * n) \div g, d |-> (s * d) \div g]

R(i) == [n |-> i, d |-> 1]

IsNaN(x) == x.d = 0 /\ x.n = 0

IsInf(x) == x.d = 0 /\ x.n # 0

IsFinite(x) == x.d > 0

RNeg(x) == [n |-> -x.n, d |-> x.d]

RAbs(x) == [n |-> Abs(x.n), d |-> x.d]

RAdd(x, y) ==
    IF IsNaN(x) \/ IsNaN(y) THEN NaN
    ELSE IF IsInf(x) /\ IsInf(y) THEN (IF x.n = y.n THEN x ELSE NaN)
    ELSE IF IsInf(x) THEN x
    ELSE IF IsInf(y) THEN y
    ELSE Frac(x.n * y.d + y.n * x.d, x.d * y.d)

RSub(x, y) == RAdd(x, RNeg(y))

RMul(x, y) ==
    IF IsNaN(x) \/ IsNaN(y) THEN NaN
    ELSE IF IsInf(x) \/ IsInf(y) THEN Frac(Sign(x.n) * Sign(y.n), 0)
    ELSE Frac(x.n * y.n, x.d * y.d)

RDiv(x, y) ==
    IF IsNaN(x) \/ IsNaN(y) THEN NaN
    ELSE IF IsInf(y) THEN (IF IsInf(x) THEN NaN ELSE R(0))
    ELSE IF IsInf(x) THEN Frac(x.n * (IF y.n < 0 THEN -1 ELSE 1), 0)
    ELSE Frac(x.n * y.d, x.d * y.n)

\* x < y as floats compare: anything against NaN is false.
RLt(x, y) ==
    IF IsNaN(x) \/ IsNaN(y) THEN FALSE
    ELSE IF IsInf(x) \/ IsInf(y)
         THEN (IF IsInf(x) THEN x.n ELSE 0) < (IF IsInf(y) THEN y.n ELSE 0)
    ELSE x.n * y.d < y.n * x.d

RGt(x, y) == RLt(y, x)

RGe(x, y) == ~IsNaN(x) /\ ~IsNaN(y) /\ ~RLt(x, y)

RLe(x, y) == RGe(y, x)

\* Python's min(a, b): b if b < a else a.
RMin(a, b) == IF RLt(b, a) THEN b ELSE a

\* A series held as an explicit tuple (the value is that of xs itself).
Series(xs) == xs \o << >>

\* Series.fillna(0)
FillNa(xs) == Series([t \in DOMAIN xs |-> IF IsNaN(xs[t]) THEN R(0) ELSE xs[t]])

Ok(v) == [kind |-> "ok", val |-> v]

Raise(e) == [kind |-> "raise", exc |-> e]

(***************************************************************************)
(* Enumerations (strategy.py:20-34).                                       *)
(***************************************************************************)
BULLISH == "bullish"

BEARISH == "bearish"

SIDEWAYS == "sideways"

TrendDirection == {BULLISH, BEARISH, SIDEWAYS}

SessionType == {"asian", "european", "us", "overlap"}

(***************************************************************************)
(* pandas primitives used by the indicators.                               *)
(***************************************************************************)
\* df[name]; the columns of df.nan hold no value (NaN) in any row.
Column(df, name) ==
    Series([t \in 1..Len(df.rows) |->
        IF name \in df.nan THEN NaN ELSE R(df.rows[t][name])])

\* Series.shift(1): the first position has no predecessor.
Shift1(xs) == Series([t \in DOMAIN xs |-> IF t = 1 THEN NaN ELSE xs[t - 1]])

\* Variant: the first difference is 0 (diff().fillna(0)).
DiffFilled(xs) ==
    Series([t \in DOMAIN xs |-> IF t = 1 THEN R(0) ELSE RSub(xs[t], xs[t - 1])])

\* Series.diff(): x[t] - x[t-1], undefined at the first position.
Diff(xs) ==
    LET prev == Shift1(xs)
    IN  Series([t \in DOMAIN xs |-> RSub(xs[t], prev[t])])

\* DataFrame.max(axis=1) over three columns, skipping NaN entries.
RowMax3(a, b, c) ==
    LET m2(x, y) == IF IsNaN(x) THEN y ELSE IF IsNaN(y) THEN x
                    ELSE IF RLt(x, y) THEN y ELSE x
    IN  m2(m2(a, b), c)

RECURSIVE SumRange(_, _, _)
SumRange(xs, lo, hi) ==
    IF hi < lo THEN R(0) ELSE RAdd(xs[hi], SumRange(xs, lo, hi - 1))

\* Series.rolling(window).mean(): undefined until `window` observations
\* exist and wherever the window holds an undefined entry.
RollingMean(xs, window) ==
    Series([t \in DOMAIN xs |->
        IF window < 1 \/ t < window THEN NaN
        ELSE IF \E k \in (t - window + 1)..t : IsNaN(xs[k]) THEN NaN
        ELSE RDiv(SumRange(xs, t - window + 1, t), R(window))])

\* Variant: alpha itself is used as the weight ratio.
DecayAlpha(span) == Frac(2, span + 1)

\* Weight ratio 1 - alpha of ewm(span): alpha = 2 / (span + 1).
Decay(span) == Frac(span - 1, span + 1)

RECURSIVE EwmNum(_, _, _)
EwmNum(xs, r, t) ==
    IF t = 1 THEN xs[1] ELSE RAdd(xs[t], RMul(r, EwmNum(xs, r, t - 1)))

RECURSIVE EwmDen(_, _)
EwmDen(r, t) == IF t = 1 THEN R(1) ELSE RAdd(R(1), RMul(r, EwmDen(r, t - 1)))

\* Series.ewm(span=span).mean() with pandas' default adjust=True, on a
\* series without undefined entries.
EwmMean(xs, span) ==
    Series([t \in DOMAIN xs |->
        RDiv(EwmNum(xs, Decay(span), t), EwmDen(Decay(span), t))])

\* max over the three true-range columns, given the columns.
TrueRangeOf(high, low, prev) ==
    Series([t \in DOMAIN high |->
        RowMax3(RSub(high[t], low[t]),
                RAbs(RSub(high[t], prev[t])),
                RAbs(RSub(low[t], prev[t])))])

\* True range, strategy.py:231-234 and 272-277.
TrueRange(df) ==
    TrueRangeOf(Column(df, "high"), Column(df, "low"),
                Shift1(Column(df, "close")))

\* -xs
Negated(xs) == Series([t \in DOMAIN xs |-> RNeg(xs[t])])

\* xs[xs < ys] = 0
MaskLess(xs, ys) ==
    Series([t \in DOMAIN xs |-> IF RLt(xs[t], ys[t]) THEN R(0) ELSE xs[t]])

\* xs[xs < 0] = 0
MaskNegative(xs) ==
    Series([t \in DOMAIN xs |-> IF RLt(xs[t], R(0)) THEN R(0) ELSE xs[t]])

\* The two assignments to dm_minus, strategy.py:243-244: they read the
\* dm_plus that the two assignments before them left.
MaskMinus(dm_plus, dm_minus) ==
    [plus |-> dm_plus, minus |-> MaskNegative(MaskLess(dm_minus, dm_plus))]

\* The four masked assignments of strategy.py:241-244, in the order the
\* code applies them.
MaskMoves(dm_plus, dm_minus) ==
    MaskMinus(MaskNegative(MaskLess(dm_plus, dm_minus)), dm_minus)

\* Directional movement, strategy.py:237-244.
DirectionalMovement(df) ==
    MaskMoves(Diff(Column(df, "high")), Negated(Diff(Column(df, "low"))))

Percent == 100

\* (dm.rolling(window=period).mean() / atr) * 100, strategy.py:248-249.
DirectionalIndex(smoothed, atr) ==
    Series([t \in DOMAIN atr |->
        RMul(RDiv(smoothed[t], atr[t]), R(Percent))])

\* Variant: the difference of the two indicators keeps its sign.
DxSigned(di_plus, di_minus) ==
    Series([t \in DOMAIN di_plus |->
        RMul(RDiv(RSub(di_plus[t], di_minus[t]),
                  RAdd(di_plus[t], di_minus[t])), R(Percent))])

\* abs(di_plus - di_minus) / (di_plus + di_minus) * 100, strategy.py:252.
Dx(di_plus, di_minus) ==
    Series([t \in DOMAIN di_plus |->
        RMul(RDiv(RAbs(RSub(di_plus[t], di_minus[t])),
                  RAdd(di_plus[t], di_minus[t])), R(Percent))])

\* strategy.py:247-255 on the true range and the directional movement.
AdxOf(tr, dm, period) ==
    FillNa(RollingMean(
        Dx(DirectionalIndex(RollingMean(dm.plus, period), RollingMean(tr, period)),
           DirectionalIndex(RollingMean(dm.minus, period), RollingMean(tr, period))),
        period))

\* _calculate_adx, strategy.py:216-255.
_calculate_adx(df, period) ==
    AdxOf(TrueRange(df), DirectionalMovement(df), period)

\* Variant: the true range is smoothed as _calculate_adx smooths it, with a
\* rolling mean that is not filled.
_calculate_atr_rolling(df, period) == RollingMean(TrueRange(df), period)

\* _calculate_atr, strategy.py:257-282.
_calculate_atr(df, period) == FillNa(EwmMean(TrueRange(df), period))

(***************************************************************************)
(* Classifiers and the confirmation rule.                                  *)
(***************************************************************************)
Max3(a, b, c) == MaxInt(MaxInt(a, b), c)

Last(xs) == xs[Len(xs)]

\* Variant: the two branches of the comparison are exchanged.
CrossoverInverted(latest_fast, latest_slow) ==
    IF RGt(latest_fast, latest_slow) THEN BEARISH
    ELSE IF RLt(latest_fast, latest_slow) THEN BULLISH
    ELSE SIDEWAYS

\* The three-way comparison of strategy.py:167-172 and 207-212.
Crossover(latest_fast, latest_slow) ==
    IF RGt(latest_fast, latest_slow) THEN BULLISH
    ELSE IF RLt(latest_fast, latest_slow) THEN BEARISH
    ELSE SIDEWAYS

\* df["close"].ewm(span=span).mean(): KeyError without the column,
\* ValueError from pandas when span < 1.
CloseEwm(df, span) ==
    IF "close" \notin df.cols THEN Raise("KeyError")
    ELSE IF span < 1 THEN Raise("ValueError")
    ELSE Ok(EwmMean(Column(df, "close"), span))

\* strategy.py:159-172 once the two EMAs are computed: the first of them
\* that raises ends the call, and iloc[-1] of an empty series raises
\* IndexError.
TrendOf(ema_fast, ema_slow) ==
    IF ema_fast.kind = "raise" THEN ema_fast
    ELSE IF ema_slow.kind = "raise" THEN ema_slow
    ELSE IF Len(ema_fast.val) = 0 THEN Raise("IndexError")
    ELSE Ok(Crossover(Last(ema_fast.val), Last(ema_slow.val)))

\* Variant: no check of the length of the series.
_compute_trend_d1_unguarded(cfg, df_d1) ==
    TrendOf(CloseEwm(df_d1, cfg.d1_ema_fast), CloseEwm(df_d1, cfg.d1_ema_slow))

\* _compute_trend_d1, strategy.py:146-172.
_compute_trend_d1(cfg, df_d1) ==
    IF Len(df_d1.rows) < MaxInt(cfg.d1_ema_fast, cfg.d1_ema_slow)
    THEN Ok(SIDEWAYS)
    ELSE TrendOf(CloseEwm(df_d1, cfg.d1_ema_fast),
                 CloseEwm(df_d1, cfg.d1_ema_slow))

\* The latest values and the returned tuple, strategy.py:201-214.
LatestOf(trend, adx_value, ema_fast, ema_slow, atr_value) ==
    [trend |-> trend,
     adx |-> IF Len(adx_value) > 0 THEN Last(adx_value) ELSE R(0),
     fast |-> Last(ema_fast),
     slow |-> Last(ema_slow),
     atr |-> IF Len(atr_value) > 0 THEN Last(atr_value) ELSE R(0)]

\* strategy.py:191-214 once the H4 trend is computed: a frame without its
\* high or low column raises KeyError in _calculate_adx, and a period
\* below 1 raises ValueError in ewm.
IndicatorsOf(cfg, df_h4, trend, ema_fast, ema_slow) ==
    IF trend.kind = "raise" THEN trend
    ELSE IF ~({"high", "low"} \subseteq df_h4.cols) THEN Raise("KeyError")
    ELSE IF cfg.atr_period < 1 THEN Raise("ValueError")
    ELSE Ok(LatestOf(trend.val,
                     _calculate_adx(df_h4, cfg.adx_period),
                     ema_fast.val, ema_slow.val,
                     _calculate_atr(df_h4, cfg.atr_period)))

\* strategy.py:191-192 handed on to the rest of the method.
WithEmas(cfg, df_h4, ema_fast, ema_slow) ==
    IndicatorsOf(cfg, df_h4, TrendOf(ema_fast, ema_slow), ema_fast, ema_slow)

\* Variant: no check of the length of the series.
_compute_trend_h4_unguarded(cfg, df_h4) ==
    WithEmas(cfg, df_h4, CloseEwm(df_h4, cfg.h4_ema_fast),
             CloseEwm(df_h4, cfg.h4_ema_slow))

\* _compute_trend_h4, strategy.py:174-214.
_compute_trend_h4(cfg, df_h4) ==
    IF Len(df_h4.rows) < Max3(cfg.h4_ema_fast, cfg.h4_ema_slow, cfg.adx_period)
    THEN Ok([trend |-> SIDEWAYS, adx |-> R(0), fast |-> R(0),
             slow |-> R(0), atr |-> R(0)])
    ELSE WithEmas(cfg, df_h4, CloseEwm(df_h4, cfg.h4_ema_fast),
                  CloseEwm(df_h4, cfg.h4_ema_slow))

\* Variant: a strength equal to the threshold does not confirm.
_is_trend_confirmed_strict(cfg, d1_trend, h4_trend, adx_strength) ==
    LET trends_align == d1_trend = h4_trend /\ d1_trend # SIDEWAYS
        adx_confirms == RGt(adx_strength, R(cfg.adx_threshold))
    IN  trends_align /\ adx_confirms

\* Variant: two SIDEWAYS trends count as aligned.
_is_trend_confirmed_sideways(cfg, d1_trend, h4_trend, adx_strength) ==
    LET trends_align == d1_trend = h4_trend
        adx_confirms == RGe(adx_strength, R(cfg.adx_threshold))
    IN  trends_align /\ adx_confirms

\* _is_trend_confirmed, strategy.py:284-302.
_is_trend_confirmed(cfg, d1_trend, h4_trend, adx_strength) ==
    LET trends_align == d1_trend = h4_trend /\ d1_trend # SIDEWAYS
        adx_confirms == RGe(adx_strength, R(cfg.adx_threshold))
    IN  trends_align /\ adx_confirms

\* The TrendAnalysis built at strategy.py:125-133.
TrendAnalysis(d1_trend, h4, trend_confirmation) ==
    [d1_trend |-> d1_trend,
     h4_trend |-> h4.trend,
     adx_strength |-> h4.adx,
     ema_fast |-> h4.fast,
     ema_slow |-> h4.slow,
     atr_value |-> h4.atr,
     trend_confirmation |-> trend_confirmation]

\* strategy.py:106-133 once the two trends are computed.
AnalysisOf(cfg, d1, h4) ==
    IF d1.kind = "raise" THEN d1
    ELSE IF h4.kind = "raise" THEN h4
    ELSE Ok(TrendAnalysis(d1.val, h4.val,
                          _is_trend_confirmed(cfg, d1.val, h4.val.trend,
                                              h4.val.adx)))

\* The try block of analyze_trend, strategy.py:105-140.
AnalyzeTrendBody(cfg, df_d1, df_h4) ==
    AnalysisOf(cfg, _compute_trend_d1(cfg, df_d1), _compute_trend_h4(cfg, df_h4))

\* Variant of the handler: the exception is raised again without a log entry.
Unlogged(r) ==
    IF r.kind = "raise"
    THEN [kind |-> "raise", exc |-> r.exc, logs |-> << >>]
    ELSE [kind |-> "ok", val |-> r.val,
          logs |-> <<"Trend analysis completed">>]

\* The handler of analyze_trend, strategy.py:135-144: a result is logged
\* and returned, an exception is logged and raised again.  `logs` are the
\* messages the call sent to the logger, in order.
Handled(r) ==
    IF r.kind = "raise"
    THEN [kind |-> "raise", exc |-> r.exc,
          logs |-> <<"Error in trend analysis">>]
    ELSE [kind |-> "ok", val |-> r.val,
          logs |-> <<"Trend analysis completed">>]

\* Variant: the handler raises again without logging.
analyze_trend_silent(cfg, df_d1, df_h4) ==
    Unlogged(AnalyzeTrendBody(cfg, df_d1, df_h4))

\* analyze_trend, strategy.py:94-144.
analyze_trend(cfg, df_d1, df_h4) ==
    Handled(AnalyzeTrendBody(cfg, df_d1, df_h4))

(***************************************************************************)
(* Signal synthesis and orchestration.                                     *)
(***************************************************************************)
None == [kind |-> "None"]

StrengthScale == 50

RewardFactor == 2

\* The record a SignalData is modelled as (strategy.py:403-418); the
\* timestamp is left out.
SignalData(symbol, signal_type, strength, session, price, stop_loss, take_profit, metadata) ==
    [kind |-> "SignalData",
     symbol |-> symbol,
     signal_type |-> signal_type,
     strength |-> strength,
     session |-> session,
     price |-> price,
     stop_loss |-> stop_loss,
     take_profit |-> take_profit,
     metadata |-> metadata]

\* The metadata dict of a signal, strategy.py:412-417.
Metadata(cfg, trend, atr_value, adx_strength) ==
    [atr_value |-> atr_value,
     adx_strength |-> adx_strength,
     trend_d1 |-> trend,
     atr_multiplier |-> cfg.atr_multiplier]

\* Variant: the take profit is as far from the price as the stop loss.
_create_signal_even(cfg, symbol, trend, session, current_price, atr_value, adx_strength) ==
    LET risk == RMul(atr_value, R(cfg.atr_multiplier))
    IN  SignalData(symbol,
                   IF trend = BULLISH THEN "buy" ELSE "sell",
                   RMin(RDiv(adx_strength, R(StrengthScale)), R(1)),
                   session,
                   R(current_price),
                   IF trend = BULLISH
                   THEN RSub(R(current_price), risk)
                   ELSE RAdd(R(current_price), risk),
                   IF trend = BULLISH
                   THEN RAdd(R(current_price), risk)
                   ELSE RSub(R(current_price), risk),
                   Metadata(cfg, trend, atr_value, adx_strength))

\* Variant: the strength is not capped at 1.
_create_signal_uncapped(cfg, symbol, trend, session, current_price, atr_value, adx_strength) ==
    LET risk == RMul(atr_value, R(cfg.atr_multiplier))
        reward == RMul(risk, R(RewardFactor))
    IN  SignalData(symbol,
                   IF trend = BULLISH THEN "buy" ELSE "sell",
                   RDiv(adx_strength, R(StrengthScale)),
                   session,
                   R(current_price),
                   IF trend = BULLISH
                   THEN RSub(R(current_price), risk)
                   ELSE RAdd(R(current_price), risk),
                   IF trend = BULLISH
                   THEN RAdd(R(current_price), reward)
                   ELSE RSub(R(current_price), reward),
                   Metadata(cfg, trend, atr_value, adx_strength))

\* Variant: the signal type is read off the wrong branch.
_create_signal_swapped(cfg, symbol, trend, session, current_price, atr_value, adx_strength) ==
    LET risk == RMul(atr_value, R(cfg.atr_multiplier))
        reward == RMul(risk, R(RewardFactor))
    IN  SignalData(symbol,
                   IF trend = BULLISH THEN "sell" ELSE "buy",
                   RMin(RDiv(adx_strength, R(StrengthScale)), R(1)),
                   session,
                   R(current_price),
                   IF trend = BULLISH
                   THEN RSub(R(current_price), risk)
                   ELSE RAdd(R(current_price), risk),
                   IF trend = BULLISH
                   THEN RAdd(R(current_price), reward)
                   ELSE RSub(R(current_price), reward),
                   Metadata(cfg, trend, atr_value, adx_strength))

\* _create_signal, strategy.py:365-432.
_create_signal(cfg, symbol, trend, session, current_price, atr_value, adx_strength) ==
    LET signal_type == IF trend = BULLISH THEN "buy" ELSE "sell"
        strength == RMin(RDiv(adx_strength, R(StrengthScale)), R(1))
        atr_multiplier == R(cfg.atr_multiplier)
        risk == RMul(atr_value, atr_multiplier)
        reward == RMul(risk, R(RewardFactor))
    IN  SignalData(symbol, signal_type, strength, session, R(current_price),
                   IF trend = BULLISH
                   THEN RSub(R(current_price), risk)
                   ELSE RAdd(R(current_price), risk),
                   IF trend = BULLISH
                   THEN RAdd(R(current_price), reward)
                   ELSE RSub(R(current_price), reward),
                   Metadata(cfg, trend, atr_value, adx_strength))

(***************************************************************************)
(* Inputs.  Periods are scaled down from the shipped defaults (50/200,     *)
(* 20/50, 14, 14) so that a handful of bars warms every indicator up;      *)
(* the threshold and the multiplier keep their default values.             *)
(* StrategyConfig (config.py:50-61) declares the fields without any        *)
(* constraint, so a multiplier of 0 is a configuration the strategy can    *)
(* be constructed with.                                                    *)
(***************************************************************************)
DefaultConfig ==
    [name |-> "TestStrategy",
     d1_ema_fast |-> 2, d1_ema_slow |-> 3,
     h4_ema_fast |-> 1, h4_ema_slow |-> 2,
     adx_period |-> 2, adx_threshold |-> 25,
     atr_period |-> 2, atr_multiplier |-> 2]

Configs ==
    {DefaultConfig,
     [DefaultConfig EXCEPT !.atr_multiplier = 0]}

Symbols == {"EURUSD", "GBPUSD"}

\* current_session is a SessionType, as the signature declares
\* (strategy.py:309): the handler of generate_signal reads its .value.
Sessions == {"us"}

Prices == {13, 100}

Strengths == {0, 24, 25, 26, 100}

Bars(hlc) ==
    Series([t \in 1..Len(hlc) |->
        [high |-> hlc[t][1], low |-> hlc[t][2], close |-> hlc[t][3]]])

OHLC == {"high", "low", "close"}

Frame(hlc) == [cols |-> OHLC, nan |-> {}, rows |-> Bars(hlc)]

\* The same bars with the close column missing.
Malformed(hlc) == [cols |-> OHLC \ {"close"}, nan |-> {}, rows |-> Bars(hlc)]

D1Rising == <<<<11, 9, 10>>, <<12, 10, 11>>, <<13, 11, 12>>>>

D1Falling == <<<<13, 11, 12>>, <<12, 10, 11>>, <<11, 9, 10>>>>

D1Short == <<<<11, 9, 10>>, <<12, 10, 11>>>>

D1Frames ==
    {Frame(D1Rising), Frame(D1Falling), Frame(D1Short), Malformed(D1Rising)}

\* ADX 100, closes rising.
H4StrongUp == <<<<11, 9, 10>>, <<12, 10, 11>>, <<13, 11, 12>>, <<14, 12, 13>>>>

\* ADX 100/3, closes falling.
H4ModerateDown == <<<<14, 12, 13>>, <<14, 10, 11>>, <<15, 10, 11>>, <<15, 8, 9>>>>

\* ADX exactly 25, closes rising.
H4ThresholdUp == <<<<10, 8, 9>>, <<13, 8, 12>>, <<13, 7, 12>>, <<14, 7, 13>>>>

\* ADX 0, closes rising.
H4WeakUp == <<<<10, 8, 9>>, <<11, 8, 10>>, <<11, 7, 10>>, <<12, 7, 11>>>>

\* ADX 100, closes flat.
H4FlatStrong == <<<<11, 9, 10>>, <<12, 9, 10>>, <<13, 9, 10>>, <<14, 9, 10>>>>

H4Short == <<<<11, 9, 10>>>>

H4Frames ==
    {Frame(H4StrongUp), Frame(H4ModerateDown), Frame(H4ThresholdUp),
     Frame(H4WeakUp), Frame(H4FlatStrong), Frame(H4Short),
     Malformed(H4StrongUp)}

\* A frame whose high and low columns hold no value: the feed delivered
\* closes only.  Its true range is undefined in every row.
ClosesOnly(hlc) == [cols |-> OHLC, nan |-> {"high", "low"}, rows |-> Bars(hlc)]

\* Inputs of the degenerate case of a confirmed analysis without risk
\* value: a threshold of 0, which StrategyConfig accepts, and a fast frame
\* of closes only.
ZeroThresholdConfig == [DefaultConfig EXCEPT !.adx_threshold = 0]

DegenerateConfigs == {ZeroThresholdConfig}

DegenerateFrames ==
    {ClosesOnly(H4StrongUp), ClosesOnly(H4ModerateDown), Frame(H4StrongUp),
     Frame(H4Short)}

\* analyze_trend tabulated over the inputs of the model, so that it is
\* computed once per input and not once per step.
AnalysisTable ==
    [x \in (Configs \cup DegenerateConfigs) \X D1Frames
            \X (H4Frames \cup DegenerateFrames) |->
        analyze_trend(x[1], x[2], x[3])] @@ << >>

\* dict[key] = value
DictSet(dict, key, value) ==
    [k \in DOMAIN dict \cup {key} |-> IF k = key THEN value ELSE dict[k]]

\* Variant: the analysis is cached only when it yields a signal.
generate_signal_lazy(cfg, cache, symbol, df_d1, df_h4, current_session, current_price) ==
    LET a == AnalysisTable[<<cfg, df_d1, df_h4>>]
    IN  IF a.kind = "raise"
        THEN [ret |-> None, raised |-> FALSE, cache |-> cache,
              logs |-> a.logs \o <<"Error generating signal">>]
        ELSE IF a.val.trend_confirmation
        THEN [ret |-> _create_signal(cfg, symbol, a.val.d1_trend,
                                     current_session, current_price,
                                     a.val.atr_value, a.val.adx_strength),
              raised |-> FALSE,
              cache |-> DictSet(cache, symbol, a.val),
              logs |-> a.logs \o <<"Signal generated",
                                   "Signal generation logged">>]
        ELSE [ret |-> None, raised |-> FALSE, cache |-> cache,
              logs |-> a.logs \o <<"Signal generation logged">>]

\* Variant: the cache entry is written before the analysis is computed, so a
\* failing analysis leaves a placeholder behind.
generate_signal_eager(cfg, cache, symbol, df_d1, df_h4, current_session, current_price) ==
    LET a == AnalysisTable[<<cfg, df_d1, df_h4>>]
    IN  IF a.kind = "raise"
        THEN [ret |-> None, raised |-> FALSE,
              cache |-> DictSet(cache, symbol, None),
              logs |-> a.logs \o <<"Error generating signal">>]
        ELSE [ret |-> IF a.val.trend_confirmation
                      THEN _create_signal(cfg, symbol, a.val.d1_trend,
                                          current_session, current_price,
                                          a.val.atr_value, a.val.adx_strength)
                      ELSE None,
              raised |-> FALSE,
              cache |-> DictSet(cache, symbol, a.val),
              logs |-> a.logs
                       \o (IF a.val.trend_confirmation
                           THEN <<"Signal generated">> ELSE << >>)
                       \o <<"Signal generation logged">>]

\* Variant: without the handler, a failing analysis leaves the call as an
\* exception.
generate_signal_unguarded(cfg, cache, symbol, df_d1, df_h4, current_session, current_price) ==
    LET a == AnalysisTable[<<cfg, df_d1, df_h4>>]
    IN  IF a.kind = "raise"
        THEN [ret |-> None, raised |-> TRUE, cache |-> cache, logs |-> a.logs]
        ELSE [ret |-> IF a.val.trend_confirmation
                      THEN _create_signal(cfg, symbol, a.val.d1_trend,
                                          current_session, current_price,
                                          a.val.atr_value, a.val.adx_strength)
                      ELSE None,
              raised |-> FALSE,
              cache |-> DictSet(cache, symbol, a.val),
              logs |-> a.logs
                       \o (IF a.val.trend_confirmation
                           THEN <<"Signal generated">> ELSE << >>)
                       \o <<"Signal generation logged">>]

\* Variant: an entry already in the cache is kept (dict.setdefault), so the
\* first analysis of a symbol wins.
generate_signal_first(cfg, cache, symbol, df_d1, df_h4, current_session, current_price) ==
    LET a == AnalysisTable[<<cfg, df_d1, df_h4>>]
    IN  IF a.kind = "raise"
        THEN [ret |-> None, raised |-> FALSE, cache |-> cache,
              logs |-> a.logs \o <<"Error generating signal">>]
        ELSE [ret |-> IF a.val.trend_confirmation
                      THEN _create_signal(cfg, symbol, a.val.d1_trend,
                                          current_session, current_price,
                                          a.val.atr_value, a.val.adx_strength)
                      ELSE None,
              raised |-> FALSE,
              cache |-> IF symbol \in DOMAIN cache THEN cache
                        ELSE DictSet(cache, symbol, a.val),
              logs |-> a.logs
                       \o (IF a.val.trend_confirmation
                           THEN <<"Signal generated">> ELSE << >>)
                       \o <<"Signal generation logged">>]

\* Variant: a signal is not emitted again while the cache already holds the
\* same analysis for the symbol.
generate_signal_once(cfg, cache, symbol, df_d1, df_h4, current_session, current_price) ==
    LET a == AnalysisTable[<<cfg, df_d1, df_h4>>]
    IN  IF a.kind = "raise"
        THEN [ret |-> None, raised |-> FALSE, cache |-> cache,
              logs |-> a.logs \o <<"Error generating signal">>]
        ELSE LET repeated == symbol \in DOMAIN cache /\ cache[symbol] = a.val
                 emit == a.val.trend_confirmation /\ ~repeated
             IN  [ret |-> IF emit
                          THEN _create_signal(cfg, symbol, a.val.d1_trend,
                                              current_session, current_price,
                                              a.val.atr_value,
                                              a.val.adx_strength)
                          ELSE None,
                  raised |-> FALSE,
                  cache |-> DictSet(cache, symbol, a.val),
                  logs |-> a.logs
                           \o (IF emit THEN <<"Signal generated">> ELSE << >>)
                           \o <<"Signal generation logged">>]

\* Variant: a failing analysis empties the cache (trend_cache.clear() in
\* the handler).
generate_signal_clearing(cfg, cache, symbol, df_d1, df_h4, current_session, current_price) ==
    LET a == AnalysisTable[<<cfg, df_d1, df_h4>>]
    IN  IF a.kind = "raise"
        THEN [ret |-> None, raised |-> FALSE, cache |-> [k \in {} |-> None],
              logs |-> a.logs \o <<"Error generating signal">>]
        ELSE [ret |-> IF a.val.trend_confirmation
                      THEN _create_signal(cfg, symbol, a.val.d1_trend,
                                          current_session, current_price,
                                          a.val.atr_value, a.val.adx_strength)
                      ELSE None,
              raised |-> FALSE,
              cache |-> DictSet(cache, symbol, a.val),
              logs |-> a.logs
                       \o (IF a.val.trend_confirmation
                           THEN <<"Signal generated">> ELSE << >>)
                       \o <<"Signal generation logged">>]

\* Variant: no signal is emitted for an analysis whose risk value is 0.
generate_signal_suppressing(cfg, cache, symbol, df_d1, df_h4, current_session, current_price) ==
    LET a == AnalysisTable[<<cfg, df_d1, df_h4>>]
    IN  IF a.kind = "raise"
        THEN [ret |-> None, raised |-> FALSE, cache |-> cache,
              logs |-> a.logs \o <<"Error generating signal">>]
        ELSE LET emit == a.val.trend_confirmation /\ a.val.atr_value # R(0)
             IN  [ret |-> IF emit
                          THEN _create_signal(cfg, symbol, a.val.d1_trend,
                                              current_session, current_price,
                                              a.val.atr_value,
                                              a.val.adx_strength)
                          ELSE None,
                  raised |-> FALSE,
                  cache |-> DictSet(cache, symbol, a.val),
                  logs |-> a.logs
                           \o (IF emit THEN <<"Signal generated">> ELSE << >>)
                           \o <<"Signal generation logged">>]

\* generate_signal, strategy.py:324-363: what it returns, whether an
\* exception leaves it, the trend_cache it leaves behind and what it logged.
\* Its call of self.analyze_trend is read from AnalysisTable.
generate_signal(cfg, cache, symbol, df_d1, df_h4, current_session, current_price) ==
    LET a == AnalysisTable[<<cfg, df_d1, df_h4>>]
    IN  IF a.kind = "raise"
        THEN [ret |-> None, raised |-> FALSE, cache |-> cache,
              logs |-> a.logs \o <<"Error generating signal">>]
        ELSE LET analysis == a.val
                 signal == IF analysis.trend_confirmation
                           THEN _create_signal(cfg, symbol, analysis.d1_trend,
                                               current_session, current_price,
                                               analysis.atr_value,
                                               analysis.adx_strength)
                           ELSE None
             IN  [ret |-> signal, raised |-> FALSE,
                  cache |-> DictSet(cache, symbol, analysis),
                  logs |-> a.logs
                           \o (IF signal # None
                               THEN <<"Signal generated">> ELSE << >>)
                           \o <<"Signal generation logged">>]

get_strategy_status(cfg, signals, cache) ==
    [name |-> cfg.name,
     active_signals |-> Cardinality(DOMAIN signals),
     cached_analysis |-> Cardinality(DOMAIN cache),
     config |-> cfg]

(***************************************************************************)
(* The strategy as a state machine: `last` records the most recent call,   *)
(* its arguments and its outcome, `calls` counts the calls made so far.    *)
(***************************************************************************)
MaxCalls == 2

\* The generate_signal calls in flight, by thread, and the application
\* object of main.py: none of either where the strategy is called from one
\* thread on its own.
NoThreads == << >>

NoApp == [pc |-> "none"]

Alone == inflight = NoThreads /\ app = NoApp

\* One more call on the instance, made from the one thread.
Call == calls < MaxCalls /\ calls' = calls + 1 /\ UNCHANGED <<inflight, app>>

EmptyDict == [k \in {} |-> None]

Init ==
    /\ config \in Configs
    /\ trend_cache = EmptyDict
    /\ active_signals = EmptyDict
    /\ last = [op |-> "__init__"]
    /\ calls = 0
    /\ Alone

\* Variant: a returned signal is registered in active_signals.
GenerateSignalRegistering ==
    \E symbol \in Symbols, df_d1 \in D1Frames, df_h4 \in H4Frames,
       session \in Sessions, price \in Prices :
        LET r == generate_signal(config, trend_cache, symbol, df_d1, df_h4,
                                 session, price)
        IN  /\ Call
            /\ trend_cache' = r.cache
            /\ active_signals' = IF r.ret = None THEN active_signals
                                 ELSE DictSet(active_signals, symbol, r.ret)
            /\ last' = [op |-> "generate_signal", symbol |-> symbol,
                        df_d1 |-> df_d1, df_h4 |-> df_h4,
                        session |-> session, price |-> price,
                        ret |-> r.ret, raised |-> r.raised, logs |-> r.logs]
            /\ UNCHANGED config

GenerateSignal ==
    \E symbol \in Symbols, df_d1 \in D1Frames, df_h4 \in H4Frames,
       session \in Sessions, price \in Prices :
        LET r == generate_signal(config, trend_cache, symbol, df_d1, df_h4,
                                 session, price)
        IN  /\ Call
            /\ trend_cache' = r.cache
            /\ last' = [op |-> "generate_signal", symbol |-> symbol,
                        df_d1 |-> df_d1, df_h4 |-> df_h4,
                        session |-> session, price |-> price,
                        ret |-> r.ret, raised |-> r.raised, logs |-> r.logs]
            /\ UNCHANGED <<config, active_signals>>

\* Variant: analyze_trend keeps its result in trend_cache.
AnalyzeTrendCaching ==
    \E df_d1 \in D1Frames, df_h4 \in H4Frames :
        LET r == AnalysisTable[<<config, df_d1, df_h4>>]
        IN  /\ Call
            /\ last' = [op |-> "analyze_trend",
                        df_d1 |-> df_d1, df_h4 |-> df_h4,
                        ret |-> IF r.kind = "ok" THEN r.val ELSE None,
                        raised |-> r.kind = "raise", logs |-> r.logs]
            /\ trend_cache' = IF r.kind = "ok"
                              THEN DictSet(trend_cache, "latest", r.val)
                              ELSE trend_cache
            /\ UNCHANGED <<config, active_signals>>

AnalyzeTrend ==
    \E df_d1 \in D1Frames, df_h4 \in H4Frames :
        LET r == AnalysisTable[<<config, df_d1, df_h4>>]
        IN  /\ Call
            /\ last' = [op |-> "analyze_trend",
                        df_d1 |-> df_d1, df_h4 |-> df_h4,
                        ret |-> IF r.kind = "ok" THEN r.val ELSE None,
                        raised |-> r.kind = "raise", logs |-> r.logs]
            /\ UNCHANGED <<config, trend_cache, active_signals>>

\* A call of _is_trend_confirmed on its own, as the unit tests make it
\* (test_strategy.py:86-114).
IsTrendConfirmed ==
    \E d1_trend \in TrendDirection, h4_trend \in TrendDirection,
       adx \in Strengths :
        /\ Call
        /\ last' = [op |-> "_is_trend_confirmed",
                    d1_trend |-> d1_trend, h4_trend |-> h4_trend,
                    adx_strength |-> adx,
                    ret |-> _is_trend_confirmed(config, d1_trend, h4_trend,
                                                R(adx))]
        /\ UNCHANGED <<config, trend_cache, active_signals>>

\* update_signal is a stub (strategy.py:447-452): it returns None.
UpdateSignal ==
    \E symbol \in Symbols :
        /\ Call
        /\ last' = [op |-> "update_signal", symbol |-> symbol, ret |-> None]
        /\ UNCHANGED <<config, trend_cache, active_signals>>

GetStrategyStatus ==
    /\ Call
    /\ last' = [op |-> "get_strategy_status",
                ret |-> get_strategy_status(config, active_signals,
                                            trend_cache)]
    /\ UNCHANGED <<config, trend_cache, active_signals>>

Next ==
    \/ GenerateSignal
    \/ AnalyzeTrend
    \/ UpdateSignal
    \/ GetStrategyStatus

Spec == Init /\ [][Next]_vars

\* The confirmation rule exercised alone, over every pair of trends and
\* every strength of Strengths.
NextConfirm == IsTrendConfirmed

SpecConfirm == Init /\ [][NextConfirm]_vars

(***************************************************************************)
(* Properties.                                                             *)
(***************************************************************************)
IsGenerate == last.op = "generate_signal"

\* What analyze_trend yields on the frames of the last call.
LastAnalysis == AnalysisTable[<<config, last.df_d1, last.df_h4>>]

LastConfirmed == LastAnalysis.kind = "ok" /\ LastAnalysis.val.trend_confirmation

Emitted == IsGenerate /\ last.ret # None

C2_SignalIffConfirmed ==
    IsGenerate =>
        /\ (last.ret # None) <=> LastConfirmed
        /\ ~LastConfirmed => last.ret = None
        /\ last.ret # None =>
            /\ last.ret.kind = "SignalData"
            /\ LastAnalysis.val.d1_trend # SIDEWAYS
            /\ LastAnalysis.val.h4_trend # SIDEWAYS

\* A confirmed analysis produced a signal for the symbol of the call.
C2_Witness ==
    /\ Emitted
    /\ LastConfirmed
    /\ last.ret.symbol = last.symbol
    /\ last.df_h4 = Frame(H4StrongUp)

\* The risk distance R*m and the price of the last call, in the
\* specification's notation.
RiskDistance == RMul(LastAnalysis.val.atr_value, R(config.atr_multiplier))

LastPrice == R(last.price)

\* C3: every returned signal has stop_loss < price < take_profit when it is
\* a buy and stop_loss > price > take_profit when it is a sell.
C3_StrictStraddle ==
    Emitted =>
        /\ last.ret.signal_type = "buy" =>
            /\ RLt(last.ret.stop_loss, last.ret.price)
            /\ RLt(last.ret.price, last.ret.take_profit)
        /\ last.ret.signal_type = "sell" =>
            /\ RGt(last.ret.stop_loss, last.ret.price)
            /\ RGt(last.ret.price, last.ret.take_profit)

\* C4: a buy has stop_loss = price - R*m and take_profit = price + 2*R*m, a
\* sell has stop_loss = price + R*m and take_profit = price - 2*R*m, and the
\* take profit is twice as far from the price as the stop loss.
C4_RiskLevels ==
    Emitted =>
        /\ last.ret.price = LastPrice
        /\ LastAnalysis.val.d1_trend = BULLISH =>
            /\ last.ret.stop_loss = RSub(LastPrice, RiskDistance)
            /\ last.ret.take_profit =
                   RAdd(LastPrice, RAdd(RiskDistance, RiskDistance))
        /\ LastAnalysis.val.d1_trend = BEARISH =>
            /\ last.ret.stop_loss = RAdd(LastPrice, RiskDistance)
            /\ last.ret.take_profit =
                   RSub(LastPrice, RAdd(RiskDistance, RiskDistance))
        /\ RAbs(RSub(last.ret.take_profit, last.ret.price))
               = RMul(R(2), RAbs(RSub(last.ret.price, last.ret.stop_loss)))

\* A sell whose stop loss lies above the price and whose take profit lies
\* below it.
C4_Witness ==
    /\ Emitted
    /\ LastAnalysis.val.d1_trend = BEARISH
    /\ RGt(last.ret.stop_loss, last.ret.price)
    /\ RLt(last.ret.take_profit, last.ret.price)

\* C5: the signal_type of a returned signal is "buy" exactly when the slow
\* trend of the analysis is BULLISH and "sell" exactly when it is BEARISH,
\* and it is never anything else.
C5_SignalType ==
    Emitted =>
        /\ last.ret.signal_type \in {"buy", "sell"}
        /\ last.ret.signal_type = "buy" <=> LastAnalysis.val.d1_trend = BULLISH
        /\ last.ret.signal_type = "sell" <=> LastAnalysis.val.d1_trend = BEARISH

\* A buy was returned for a BULLISH slow trend that the cache now holds.
C5_Witness ==
    /\ Emitted
    /\ last.ret.signal_type = "buy"
    /\ last.symbol \in DOMAIN trend_cache
    /\ trend_cache[last.symbol].d1_trend = BULLISH

\* C6: the strength of a returned signal is adx/50 while the ADX is below
\* 50 and 1 from 50 on, so it always lies in [0, 1].
C6_Strength ==
    Emitted =>
        LET adx == LastAnalysis.val.adx_strength
        IN  /\ RGe(last.ret.strength, R(0))
            /\ RLe(last.ret.strength, R(1))
            /\ RLt(adx, R(50)) => last.ret.strength = Frac(adx.n, adx.d * 50)
            /\ RGe(adx, R(50)) => last.ret.strength = R(1)

\* A signal on the linear part: an ADX below 50 and a strength below 1.
C6_Witness ==
    /\ Emitted
    /\ RLt(LastAnalysis.val.adx_strength, R(50))
    /\ RLt(last.ret.strength, R(1))
    /\ RGt(last.ret.strength, R(0))

\* C7, as stated: after any generate_signal call, whatever its outcome,
\* trend_cache[symbol] exists and equals the analysis analyze_trend returns
\* for the same frames.
C7_CacheAlways ==
    IsGenerate =>
        /\ last.symbol \in DOMAIN trend_cache
        /\ LastAnalysis.kind = "ok"
        /\ trend_cache[last.symbol] = LastAnalysis.val

\* C7, amended: a generate_signal call whose analysis returns leaves that
\* analysis in trend_cache[symbol], with or without a signal; a call whose
\* analysis raises leaves trend_cache as it was.
C7_CacheUnlessRaised ==
    [][last'.op = "generate_signal" =>
          LET a == AnalysisTable[<<config, last'.df_d1, last'.df_h4>>]
          IN  IF a.kind = "ok"
              THEN /\ last'.symbol \in DOMAIN trend_cache'
                   /\ trend_cache'[last'.symbol] = a.val
              ELSE trend_cache' = trend_cache]_vars

\* A call whose analysis raised on a strategy that has no entry for the
\* symbol, after an earlier call cached another symbol.
C7_Witness ==
    /\ IsGenerate
    /\ LastAnalysis.kind = "raise"
    /\ last.symbol \notin DOMAIN trend_cache
    /\ DOMAIN trend_cache # {}

\* C8: when the analysis is not confirmed and generate_signal returns None,
\* trend_cache[symbol] has still been set to that unconfirmed analysis.
C8_CacheWithoutSignal ==
    (IsGenerate /\ LastAnalysis.kind = "ok"
        /\ ~LastAnalysis.val.trend_confirmation) =>
        /\ last.ret = None
        /\ last.symbol \in DOMAIN trend_cache
        /\ trend_cache[last.symbol] = LastAnalysis.val
        /\ ~trend_cache[last.symbol].trend_confirmation

\* Aligned trends with an ADX below the threshold: no signal, and the
\* unconfirmed analysis is in the cache.
C8_Witness ==
    /\ IsGenerate
    /\ last.ret = None
    /\ last.symbol \in DOMAIN trend_cache
    /\ trend_cache[last.symbol].d1_trend = BULLISH
    /\ trend_cache[last.symbol].h4_trend = BULLISH
    /\ ~trend_cache[last.symbol].trend_confirmation
    /\ trend_cache[last.symbol] = LastAnalysis.val

\* Whether the sequence holds the message.
Logged(logs, message) == \E i \in 1..Len(logs) : logs[i] = message

LastComputationRaises ==
    AnalyzeTrendBody(config, last.df_d1, last.df_h4).kind = "raise"

\* C10, as stated: an exception raised while analyze_trend computes its
\* indicators is caught there and becomes a None result of analyze_trend.
C10_AnalyzeReturnsNone ==
    (last.op = "analyze_trend" /\ LastComputationRaises) =>
        /\ ~last.raised
        /\ last.ret = None

\* C10, amended: analyze_trend logs the exception and raises it again; it
\* is generate_signal that turns it into a None result.
C10_AnalyzeReraises ==
    /\ (last.op = "analyze_trend" /\ LastComputationRaises) =>
        /\ last.raised
        /\ Logged(last.logs, "Error in trend analysis")
    /\ (last.op = "analyze_trend" /\ ~LastComputationRaises) =>
        /\ ~last.raised
        /\ last.ret # None
    /\ (IsGenerate /\ LastComputationRaises) =>
        /\ ~last.raised
        /\ last.ret = None
        /\ Logged(last.logs, "Error in trend analysis")

\* analyze_trend raised on a slow frame without its close column.
C10_Witness ==
    /\ last.op = "analyze_trend"
    /\ "close" \notin last.df_d1.cols
    /\ last.raised

\* Whether the step is a generate_signal call whose analysis returned.
SuccessfulGenerate ==
    /\ last'.op = "generate_signal"
    /\ AnalysisTable[<<config, last'.df_d1, last'.df_h4>>].kind = "ok"

\* C11: every successful generate_signal call for a symbol replaces that
\* symbol's entry with the analysis of that call alone and adds no other
\* entry, so trend_cache holds one analysis per symbol seen, the latest.
C11_LastWriteWins ==
    [][SuccessfulGenerate =>
          LET a == AnalysisTable[<<config, last'.df_d1, last'.df_h4>>]
          IN  /\ DOMAIN trend_cache' = DOMAIN trend_cache \cup {last'.symbol}
              /\ trend_cache'[last'.symbol] = a.val
              /\ \A k \in DOMAIN trend_cache \ {last'.symbol} :
                     trend_cache'[k] = trend_cache[k]
              /\ Cardinality(DOMAIN trend_cache') =
                     Cardinality(DOMAIN trend_cache \cup {last'.symbol})]_vars

\* Two successful calls for two symbols: two entries, each its own call's
\* analysis, the later call's analysis different from the earlier one's.
C11_Witness ==
    /\ IsGenerate
    /\ LastAnalysis.kind = "ok"
    /\ DOMAIN trend_cache = Symbols
    /\ trend_cache[last.symbol] = LastAnalysis.val
    /\ \E k \in Symbols : trend_cache[k] # trend_cache[last.symbol]

\* C12: analyze_trend and get_strategy_status leave config, trend_cache
\* and active_signals exactly as they were.
C12_ReadOnlyCalls ==
    [][last'.op \in {"analyze_trend", "get_strategy_status"} =>
          /\ config' = config
          /\ trend_cache' = trend_cache
          /\ active_signals' = active_signals]_vars

\* analyze_trend returned an analysis on a strategy whose cache holds an
\* entry from an earlier generate_signal call.
C12_Witness ==
    /\ last.op = "analyze_trend"
    /\ ~last.raised
    /\ DOMAIN trend_cache # {}

\* Whether the step repeats the generate_signal call before it.
RepeatedGenerate ==
    /\ last.op = "generate_signal"
    /\ last'.op = "generate_signal"
    /\ last'.symbol = last.symbol
    /\ last'.df_d1 = last.df_d1
    /\ last'.df_h4 = last.df_h4
    /\ last'.session = last.session
    /\ last'.price = last.price

\* C13: a generate_signal call that repeats the call before it returns an
\* equal result (the timestamp apart) and leaves the strategy state as the
\* first call left it.
C13_Idempotent ==
    [][RepeatedGenerate =>
          /\ last'.ret = last.ret
          /\ last'.raised = last.raised
          /\ trend_cache' = trend_cache
          /\ active_signals' = active_signals
          /\ config' = config]_vars

\* The second of two calls returned a signal and the cache holds the one
\* analysis of that symbol.
C13_Witness ==
    /\ calls > 1
    /\ Emitted
    /\ DOMAIN trend_cache = {last.symbol}
    /\ trend_cache[last.symbol] = LastAnalysis.val

(***************************************************************************)
(* The classifiers and the indicators on their own, over every frame of    *)
(* at most MaxBars valid bars (low <= close <= high) with prices in        *)
(* Levels.  The frame is drawn by the initial state and one method is      *)
(* applied to it.                                                          *)
(***************************************************************************)
MaxBars == 3

Levels == {1, 2, 3}

\* <<high, low, close>> of a valid bar.
ValidBars ==
    {hlc \in Levels \X Levels \X Levels : hlc[2] <= hlc[3] /\ hlc[3] <= hlc[1]}

IndFrames ==
    {Frame(hlc) : hlc \in UNION {[1..n -> ValidBars] : n \in 0..MaxBars}}

\* Every period 1.
ShortConfig ==
    [DefaultConfig EXCEPT !.d1_ema_fast = 1, !.d1_ema_slow = 2,
                          !.adx_period = 1, !.atr_period = 1]

\* The slow classifier's periods given in the other order, and an ADX
\* period above both EMA periods of the fast classifier.
LongAdxConfig ==
    [DefaultConfig EXCEPT !.d1_ema_fast = 3, !.d1_ema_slow = 1,
                          !.adx_period = 3, !.atr_period = 3]

IndConfigs == {ShortConfig, DefaultConfig, LongAdxConfig}

InitInd ==
    /\ config \in IndConfigs
    /\ trend_cache = EmptyDict
    /\ active_signals = EmptyDict
    /\ last \in {[op |-> "input", df |-> df] : df \in IndFrames}
    /\ calls = 0
    /\ Alone

\* The method `op` applied to the frame that was drawn, with result `ret`.
Applied(op, ret) ==
    /\ last.op = "input"
    /\ Call
    /\ last' = [op |-> op, df |-> last.df, ret |-> ret]
    /\ UNCHANGED <<config, trend_cache, active_signals>>

ComputeTrendD1 ==
    Applied("_compute_trend_d1", _compute_trend_d1(config, last.df))

ComputeTrendH4 ==
    Applied("_compute_trend_h4", _compute_trend_h4(config, last.df))

NextTrend ==
    \/ ComputeTrendD1
    \/ ComputeTrendH4

SpecTrend == InitInd /\ [][NextTrend]_vars

CalculateAdx ==
    Applied("_calculate_adx", _calculate_adx(last.df, config.adx_period))

CalculateAtr ==
    Applied("_calculate_atr", _calculate_atr(last.df, config.atr_period))

DirectionalMove ==
    Applied("directional_movement", DirectionalMovement(last.df))

NextInd ==
    \/ CalculateAdx
    \/ CalculateAtr
    \/ DirectionalMove

SpecInd == InitInd /\ [][NextInd]_vars

\* Number of bars of the frame the last method was applied to.
Bars_n == Len(last.df.rows)

\* C14: a series with fewer observations than max(fast, slow) is classified
\* SIDEWAYS whatever its prices, by the slow and by the fast classifier.
C14_ShortIsSideways ==
    /\ (last.op = "_compute_trend_d1"
            /\ Bars_n < MaxInt(config.d1_ema_fast, config.d1_ema_slow)) =>
        last.ret = Ok(SIDEWAYS)
    /\ (last.op = "_compute_trend_h4"
            /\ Bars_n < MaxInt(config.h4_ema_fast, config.h4_ema_slow)) =>
        /\ last.ret.kind = "ok"
        /\ last.ret.val.trend = SIDEWAYS

\* Two bars with rising closes, one short of the slow period 3, were
\* classified SIDEWAYS by the slow classifier.
C14_Witness ==
    /\ last.op = "_compute_trend_d1"
    /\ Bars_n = 2
    /\ config.d1_ema_slow = 3
    /\ last.df.rows[1].close < last.df.rows[2].close
    /\ last.ret = Ok(SIDEWAYS)

\* The most recent value of the EMA of the close over the given span.
LatestEma(span) == Last(EwmMean(Column(last.df, "close"), span))

\* The direction that the latest fast and slow EMA values decide.
Decided(trend, fast, slow) ==
    /\ trend = BULLISH <=> RGt(LatestEma(fast), LatestEma(slow))
    /\ trend = BEARISH <=> RLt(LatestEma(fast), LatestEma(slow))
    /\ trend = SIDEWAYS <=> LatestEma(fast) = LatestEma(slow)

\* The slow classifier decides by the latest EMA values from max(fast, slow)
\* observations on.
D1Decided ==
    (last.op = "_compute_trend_d1"
        /\ Bars_n >= MaxInt(config.d1_ema_fast, config.d1_ema_slow)) =>
    /\ last.ret.kind = "ok"
    /\ Decided(last.ret.val, config.d1_ema_fast, config.d1_ema_slow)

\* C15 as stated: from max(fast, slow) observations on, both classifiers
\* decide only by the latest fast and slow EMA values of the close.
C15_DecidedFromMaxPeriods ==
    /\ D1Decided
    /\ (last.op = "_compute_trend_h4"
            /\ Bars_n >= MaxInt(config.h4_ema_fast, config.h4_ema_slow)) =>
        /\ last.ret.kind = "ok"
        /\ Decided(last.ret.val.trend, config.h4_ema_fast, config.h4_ema_slow)

\* C15: the slow classifier decides by the latest fast and slow EMA values
\* of the close from max(fast, slow) observations on; the fast classifier
\* does so from max(fast, slow, adx_period) observations on, and returns
\* SIDEWAYS below that length.
C15_DecidedWhenComputed ==
    /\ D1Decided
    /\ last.op = "_compute_trend_h4" =>
        /\ last.ret.kind = "ok"
        /\ IF Bars_n >= Max3(config.h4_ema_fast, config.h4_ema_slow,
                             config.adx_period)
           THEN Decided(last.ret.val.trend, config.h4_ema_fast,
                        config.h4_ema_slow)
           ELSE last.ret.val.trend = SIDEWAYS

\* The fast classifier returned BEARISH for three bars whose latest fast
\* EMA lies below the slow one, with an oscillator period of three.
C15_Witness ==
    /\ last.op = "_compute_trend_h4"
    /\ config.adx_period = 3
    /\ Bars_n = 3
    /\ RLt(LatestEma(config.h4_ema_fast), LatestEma(config.h4_ema_slow))
    /\ last.ret.val.trend = BEARISH

\* The closes of the frame rise, or fall, strictly from bar to bar.
Increasing ==
    \A t \in 1..(Bars_n - 1) : last.df.rows[t].close < last.df.rows[t + 1].close

Decreasing ==
    \A t \in 1..(Bars_n - 1) : last.df.rows[t].close > last.df.rows[t + 1].close

\* The direction a monotonic series must be given.
Monotonic(trend) ==
    /\ Increasing => trend = BULLISH
    /\ Decreasing => trend = BEARISH

\* The slow classifier with fast < slow follows a monotonic series of at
\* least max(fast, slow) observations.
D1Monotonic ==
    (last.op = "_compute_trend_d1"
        /\ config.d1_ema_fast < config.d1_ema_slow
        /\ Bars_n >= MaxInt(config.d1_ema_fast, config.d1_ema_slow)) =>
    /\ last.ret.kind = "ok"
    /\ Monotonic(last.ret.val)

\* C16 as stated: a classifier with fast < slow gives BULLISH to every
\* strictly increasing and BEARISH to every strictly decreasing series of at
\* least max(fast, slow) observations.
C16_MonotonicFromMaxPeriods ==
    /\ D1Monotonic
    /\ (last.op = "_compute_trend_h4"
            /\ config.h4_ema_fast < config.h4_ema_slow
            /\ Bars_n >= MaxInt(config.h4_ema_fast, config.h4_ema_slow)) =>
        /\ last.ret.kind = "ok"
        /\ Monotonic(last.ret.val.trend)

\* C16: with fast < slow, a strictly increasing series is classified BULLISH
\* and a strictly decreasing one BEARISH, by the slow classifier from
\* max(fast, slow) observations on and by the fast classifier from
\* max(fast, slow, adx_period) observations on.
C16_MonotonicWhenComputed ==
    /\ D1Monotonic
    /\ (last.op = "_compute_trend_h4"
            /\ config.h4_ema_fast < config.h4_ema_slow
            /\ Bars_n >= Max3(config.h4_ema_fast, config.h4_ema_slow,
                              config.adx_period)) =>
        /\ last.ret.kind = "ok"
        /\ Monotonic(last.ret.val.trend)

\* Three bars closing at 1, 2, 3 were classified BULLISH by the slow
\* classifier with periods 2 and 3.
C16_Witness ==
    /\ last.op = "_compute_trend_d1"
    /\ config.d1_ema_fast = 2
    /\ config.d1_ema_slow = 3
    /\ Bars_n = 3
    /\ Increasing
    /\ last.ret = Ok(BULLISH)

\* C17: the series _calculate_adx returns has the length of its input and
\* every value of it lies in [0, 100].
C17_AdxRange ==
    last.op = "_calculate_adx" =>
        /\ Len(last.ret) = Bars_n
        /\ \A t \in DOMAIN last.ret :
            /\ RGe(last.ret[t], R(0))
            /\ RLe(last.ret[t], R(Percent))

\* With period 1, a second bar equal to a first bar of no range (smoothed
\* true range and +DI + -DI both zero) resolved to 0, and a third bar above
\* it to 100.
C17_Witness ==
    /\ last.op = "_calculate_adx"
    /\ config.adx_period = 1
    /\ Bars_n = 3
    /\ last.df.rows[1] = last.df.rows[2]
    /\ last.df.rows[1].high = last.df.rows[1].low
    /\ last.ret[2] = R(0)
    /\ last.ret[3] = R(Percent)

\* C18: the series _calculate_atr returns has the length of its input, no
\* undefined entry, and no negative value.
C18_AtrNonNegative ==
    last.op = "_calculate_atr" =>
        /\ Len(last.ret) = Bars_n
        /\ \A t \in DOMAIN last.ret :
            /\ ~IsNaN(last.ret[t])
            /\ RGe(last.ret[t], R(0))

\* Three bars were smoothed with period 3 into three values, the last of
\* them positive.
C18_Witness ==
    /\ last.op = "_calculate_atr"
    /\ config.atr_period = 3
    /\ Bars_n = 3
    /\ Len(last.ret) = 3
    /\ RGt(last.ret[3], R(0))

\* C19: for every bar after the first, +DM and -DM are both >= 0 and at most
\* one of them is nonzero.
C19_OneMovePerBar ==
    last.op = "directional_movement" =>
        \A t \in 2..Bars_n :
            /\ RGe(last.ret.plus[t], R(0))
            /\ RGe(last.ret.minus[t], R(0))
            /\ last.ret.plus[t] = R(0) \/ last.ret.minus[t] = R(0)

(***************************************************************************)
(* Construction: StrategyConfig from keyword arguments, then               *)
(* TrendContinuationStrategy(config).                                      *)
(***************************************************************************)
\* The fields of StrategyConfig that carry a default, config.py:54-61.
FieldDefaults ==
    [d1_ema_fast |-> 50, d1_ema_slow |-> 200,
     h4_ema_fast |-> 20, h4_ema_slow |-> 50,
     adx_period |-> 14, adx_threshold |-> 25,
     atr_period |-> 14, atr_multiplier |-> 2]

\* StrategyConfig from keyword arguments, config.py:50-61: name is
\* required, every other field falls back on its default, and no field
\* carries a constraint.
StrategyConfig(kwargs) ==
    IF "name" \notin DOMAIN kwargs THEN Raise("ValidationError")
    ELSE Ok([f \in {"name"} \cup DOMAIN FieldDefaults |->
                IF f \in DOMAIN kwargs THEN kwargs[f] ELSE FieldDefaults[f]])

\* Keyword arguments: the name given or left out, and four options taking
\* valid and invalid values.
NameArgs == {<< >>, [name |-> "TestStrategy"]}

PeriodArgs == {-1, 0, 2}

AdxPeriodArgs == {0, 2}

ThresholdArgs == {-1, 0, 25}

MultiplierArgs == {-2, 0, 2}

ConfigArgs ==
    {nm @@ [d1_ema_fast |-> f, adx_period |-> a,
            adx_threshold |-> th, atr_multiplier |-> m] :
        nm \in NameArgs, f \in PeriodArgs, a \in AdxPeriodArgs,
        th \in ThresholdArgs, m \in MultiplierArgs}

\* Before anything is constructed there is no instance.
InitConfig ==
    /\ config = None
    /\ trend_cache = EmptyDict
    /\ active_signals = EmptyDict
    /\ last = [op |-> "start"]
    /\ calls = 0
    /\ Alone

BuildConfig ==
    /\ last.op = "start"
    /\ Call
    /\ \E kwargs \in ConfigArgs :
        last' = [op |-> "StrategyConfig", kwargs |-> kwargs,
                 ret |-> StrategyConfig(kwargs)]
    /\ UNCHANGED <<config, trend_cache, active_signals>>

\* TrendContinuationStrategy(config), strategy.py:78-92, on the
\* configuration that was built.
InitStrategy ==
    /\ last.op = "StrategyConfig"
    /\ last.ret.kind = "ok"
    /\ Call
    /\ config' = last.ret.val
    /\ trend_cache' = EmptyDict
    /\ active_signals' = EmptyDict
    /\ last' = [op |-> "__init__"]

NextConfig == BuildConfig \/ InitStrategy

SpecConfig == InitConfig /\ [][NextConfig]_vars

\* C20: building the configuration without its required field fails, and
\* no instance exists whose configuration has a period below 1 or a
\* non-positive threshold or multiplier.
C20_ValidatedAtConstruction ==
    /\ (last.op = "StrategyConfig" /\ "name" \notin DOMAIN last.kwargs) =>
        last.ret.kind = "raise"
    /\ config # None =>
        /\ \A f \in {"d1_ema_fast", "d1_ema_slow", "h4_ema_fast",
                     "h4_ema_slow", "adx_period", "atr_period"} :
            config[f] >= 1
        /\ config.adx_threshold > 0
        /\ config.atr_multiplier > 0

\* The last call analysed a fast frame shorter than the history that
\* _compute_trend_h4 requires.
ShortHistory ==
    /\ last.op \in {"generate_signal", "analyze_trend"}
    /\ Len(last.df_h4.rows) < Max3(config.h4_ema_fast, config.h4_ema_slow,
                                   config.adx_period)

\* C22: a fast frame shorter than max(h4_ema_fast, h4_ema_slow, adx_period)
\* raises nothing: the fast trend is SIDEWAYS with strength 0 and risk value
\* 0, the analysis is not confirmed, and generate_signal returns None.  An
\* analysis on such a frame raises only when the slow frame makes it raise.
C22_ShortHistoryIsNoError ==
    ShortHistory =>
        /\ _compute_trend_h4(config, last.df_h4).kind = "ok"
        /\ LastAnalysis.kind = "raise" =>
            _compute_trend_d1(config, last.df_d1).kind = "raise"
        /\ LastAnalysis.kind = "ok" =>
            /\ LastAnalysis.val.h4_trend = SIDEWAYS
            /\ LastAnalysis.val.adx_strength = R(0)
            /\ LastAnalysis.val.atr_value = R(0)
            /\ ~LastAnalysis.val.trend_confirmation
            /\ last.op = "analyze_trend" =>
                ~last.raised /\ last.ret = LastAnalysis.val
        /\ IsGenerate => last.ret = None /\ ~last.raised

\* generate_signal on a rising slow frame and a fast frame of one bar
\* returned None and cached the fallback analysis.
C22_Witness ==
    /\ IsGenerate
    /\ last.df_d1 = Frame(D1Rising)
    /\ last.df_h4 = Frame(H4Short)
    /\ last.ret = None
    /\ trend_cache[last.symbol].d1_trend = BULLISH
    /\ trend_cache[last.symbol].h4_trend = SIDEWAYS
    /\ trend_cache[last.symbol].atr_value = R(0)

(***************************************************************************)
(* generate_signal on the degenerate inputs: a strategy whose threshold is *)
(* 0, fed fast frames with and without a true range.                       *)
(***************************************************************************)
InitDegenerate ==
    /\ config \in DegenerateConfigs
    /\ trend_cache = EmptyDict
    /\ active_signals = EmptyDict
    /\ last = [op |-> "__init__"]
    /\ calls = 0
    /\ Alone

GenerateDegenerate ==
    \E symbol \in Symbols, df_d1 \in D1Frames, df_h4 \in DegenerateFrames,
       session \in Sessions, price \in Prices :
        LET r == generate_signal(config, trend_cache, symbol, df_d1, df_h4,
                                 session, price)
        IN  /\ Call
            /\ trend_cache' = r.cache
            /\ last' = [op |-> "generate_signal", symbol |-> symbol,
                        df_d1 |-> df_d1, df_h4 |-> df_h4,
                        session |-> session, price |-> price,
                        ret |-> r.ret, raised |-> r.raised, logs |-> r.logs]
            /\ UNCHANGED <<config, active_signals>>

NextDegenerate == GenerateDegenerate

SpecDegenerate == InitDegenerate /\ [][NextDegenerate]_vars

\* C24: when the analysis is confirmed and its risk value is 0,
\* generate_signal still returns a signal, and that signal has
\* stop_loss = take_profit = price.
C24_ZeroRiskStillEmits ==
    (IsGenerate /\ LastConfirmed /\ LastAnalysis.val.atr_value = R(0)) =>
        /\ last.ret # None
        /\ last.ret.kind = "SignalData"
        /\ last.ret.price = LastPrice
        /\ last.ret.stop_loss = LastPrice
        /\ last.ret.take_profit = LastPrice

\* A rising slow frame and a rising fast frame of closes only, under a
\* threshold of 0: the analysis is confirmed with strength 0 and risk value
\* 0, and a buy at 13 with stop loss 13 and take profit 13 was returned.
C24_Witness ==
    /\ Emitted
    /\ last.df_h4 = ClosesOnly(H4StrongUp)
    /\ LastAnalysis.val.atr_value = R(0)
    /\ LastAnalysis.val.adx_strength = R(0)
    /\ last.ret.signal_type = "buy"
    /\ last.price = 13
    /\ last.ret.stop_loss = R(13)
    /\ last.ret.take_profit = R(13)

\* C25: for period p the first 2p - 1 positions of the series returned by
\* _calculate_adx are 0, so a fast frame with fewer than 2p bars has a
\* latest strength of 0, also as _compute_trend_h4 reports it.
C25_LeadingZeros ==
    last.op = "_calculate_adx" =>
        /\ \A t \in DOMAIN last.ret :
            t <= 2 * config.adx_period - 1 => last.ret[t] = R(0)
        /\ (Bars_n > 0 /\ Bars_n < 2 * config.adx_period) =>
            /\ Last(last.ret) = R(0)
            /\ _compute_trend_h4(config, last.df).kind = "ok"
            /\ _compute_trend_h4(config, last.df).val.adx = R(0)

\* Three bars with rising highs under period 2: the two averages of two
\* bars each need four bars, and all three positions are 0 although the
\* directional movement of the last two bars is positive.
C25_Witness ==
    /\ last.op = "_calculate_adx"
    /\ config.adx_period = 2
    /\ Bars_n = 3
    /\ last.df.rows[1].high < last.df.rows[2].high
    /\ last.df.rows[2].high < last.df.rows[3].high
    /\ DirectionalMovement(last.df).plus[3] = R(1)
    /\ last.ret = <<R(0), R(0), R(0)>>

\* C26: a generate_signal call for a symbol leaves the entry of every other
\* symbol, present or absent, as it was, whether it returns a signal,
\* returns None or fails.
C26_OtherSymbolsUntouched ==
    [][last'.op = "generate_signal" =>
          \A T \in Symbols \ {last'.symbol} :
              /\ T \in DOMAIN trend_cache' <=> T \in DOMAIN trend_cache
              /\ T \in DOMAIN trend_cache =>
                     trend_cache'[T] = trend_cache[T]]_vars

\* A call whose analysis raised, on a strategy holding the entry of the
\* other symbol and none for its own.
C26_Witness ==
    /\ IsGenerate
    /\ LastAnalysis.kind = "raise"
    /\ last.ret = None
    /\ DOMAIN trend_cache = Symbols \ {last.symbol}

\* C27: active_signals is empty after any sequence of calls, and
\* get_strategy_status reports active_signals = 0 and cached_analysis = the
\* number of symbols in trend_cache.
C27_RegistryEmpty ==
    /\ active_signals = EmptyDict
    /\ last.op = "get_strategy_status" =>
        /\ last.ret.active_signals = 0
        /\ last.ret.cached_analysis = Cardinality(DOMAIN trend_cache)

\* The status after a call that returned a signal: one cached analysis, a
\* confirmed one, and no active signal.
C27_Witness ==
    /\ last.op = "get_strategy_status"
    /\ last.ret.active_signals = 0
    /\ last.ret.cached_analysis = 1
    /\ \E k \in DOMAIN trend_cache : trend_cache[k].trend_confirmation

\* C28: a generate_signal call whose analysis raises leaves trend_cache and
\* active_signals as they were before the call: the entry of its symbol
\* stays the analysis of the earlier call, or stays absent.
C28_FailureKeepsState ==
    [][(last'.op = "generate_signal"
          /\ AnalysisTable[<<config, last'.df_d1, last'.df_h4>>].kind = "raise") =>
          /\ trend_cache' = trend_cache
          /\ active_signals' = active_signals
          /\ last'.symbol \in DOMAIN trend_cache' <=>
                 last'.symbol \in DOMAIN trend_cache]_vars

\* A failing call for a symbol whose entry is a confirmed analysis of an
\* earlier call with other frames.
C28_Witness ==
    /\ IsGenerate
    /\ LastAnalysis.kind = "raise"
    /\ last.symbol \in DOMAIN trend_cache
    /\ trend_cache[last.symbol].trend_confirmation

(***************************************************************************)
(* generate_signal called from two threads on one instance.  A call is     *)
(* split where another thread can run in between: after the analysis,      *)
(* which reads config and the frames only and is held in a local           *)
(* (strategy.py:328), after the store into trend_cache, one dict item       *)
(* assignment (strategy.py:331), and at the return (strategy.py:333-354).   *)
(***************************************************************************)
Threads == {1, 2}

ConcD1Frames == {Frame(D1Rising), Frame(D1Falling), Malformed(D1Rising)}

ConcH4Frames == {Frame(H4StrongUp), Frame(H4ModerateDown), Frame(H4WeakUp)}

ConcPrices == {13}

InitConc ==
    /\ config = DefaultConfig
    /\ trend_cache = EmptyDict
    /\ active_signals = EmptyDict
    /\ last = [op |-> "__init__"]
    /\ calls = 0
    /\ inflight = [t \in Threads |-> [pc |-> "idle"]]
    /\ app = NoApp

\* The frame of a call after one more step: the fields of `step` replace or
\* extend those of the call.
Advance(t, step) == inflight' = [inflight EXCEPT ![t] = step @@ inflight[t]]

\* Thread t enters generate_signal; seq is the order of invocation.
Invoke(t) ==
    /\ inflight[t].pc = "idle"
    /\ \E symbol \in Symbols, df_d1 \in ConcD1Frames, df_h4 \in ConcH4Frames,
          session \in Sessions, price \in ConcPrices :
        Advance(t, [pc |-> "invoked", seq |-> calls + 1, symbol |-> symbol,
                    df_d1 |-> df_d1, df_h4 |-> df_h4, session |-> session,
                    price |-> price])
    /\ calls' = calls + 1
    /\ UNCHANGED <<config, trend_cache, active_signals, last, app>>

\* analysis = self.analyze_trend(df_d1, df_h4), strategy.py:328; when it
\* raises, the handler of strategy.py:356-363 returns None.
Analyze(t) ==
    /\ inflight[t].pc = "invoked"
    /\ LET a == AnalysisTable[<<config, inflight[t].df_d1, inflight[t].df_h4>>]
       IN  IF a.kind = "raise"
           THEN Advance(t, [pc |-> "done", analysis |-> a, ret |-> None])
           ELSE Advance(t, [pc |-> "analyzed", analysis |-> a])
    /\ UNCHANGED <<config, trend_cache, active_signals, last, calls, app>>

\* Variant: the store rebinds trend_cache to a new dict holding the one
\* entry.
StoreRebinding(t) ==
    /\ inflight[t].pc = "analyzed"
    /\ trend_cache' = DictSet(EmptyDict, inflight[t].symbol,
                              inflight[t].analysis.val)
    /\ Advance(t, [pc |-> "cached"])
    /\ UNCHANGED <<config, active_signals, last, calls, app>>

\* self.trend_cache[symbol] = analysis, strategy.py:331.
Store(t) ==
    /\ inflight[t].pc = "analyzed"
    /\ trend_cache' = DictSet(trend_cache, inflight[t].symbol,
                              inflight[t].analysis.val)
    /\ Advance(t, [pc |-> "cached"])
    /\ UNCHANGED <<config, active_signals, last, calls, app>>

\* The signal of strategy.py:333-354 built from the given analysis.
SignalFrom(call, analysis) ==
    IF analysis.trend_confirmation
    THEN _create_signal(config, call.symbol, analysis.d1_trend, call.session,
                        call.price, analysis.atr_value, analysis.adx_strength)
    ELSE None

\* Variant: the signal is built from the entry that trend_cache holds for
\* the symbol when the thread gets there.
ReturnFromCache(t) ==
    /\ inflight[t].pc = "cached"
    /\ Advance(t, [pc |-> "done",
                   ret |-> SignalFrom(inflight[t],
                                      trend_cache[inflight[t].symbol])])
    /\ UNCHANGED <<config, trend_cache, active_signals, last, calls, app>>

\* strategy.py:333-354: the signal is built from the local `analysis`.
Return(t) ==
    /\ inflight[t].pc = "cached"
    /\ Advance(t, [pc |-> "done",
                   ret |-> SignalFrom(inflight[t], inflight[t].analysis.val)])
    /\ UNCHANGED <<config, trend_cache, active_signals, last, calls, app>>

NextConc ==
    \E t \in Threads : Invoke(t) \/ Analyze(t) \/ Store(t) \/ Return(t)

SpecConc == InitConc /\ [][NextConc]_vars

\* Both calls have returned.
AllDone == \A t \in Threads : inflight[t].pc = "done"

\* What analyze_trend yields on the frames of thread t's call, and the
\* entry and the result that the call leaves when it runs alone.
Own(t) == AnalysisTable[<<config, inflight[t].df_d1, inflight[t].df_h4>>]

OwnResult(t) ==
    generate_signal(config, EmptyDict, inflight[t].symbol, inflight[t].df_d1,
                    inflight[t].df_h4, inflight[t].session, inflight[t].price)

\* C21: after two concurrent calls for different symbols, in whatever order
\* their steps ran, trend_cache holds for each symbol the analysis of the
\* call for that symbol, and each call returned the signal of its own
\* analysis.
C21_DifferentSymbolsSafe ==
    (AllDone /\ inflight[1].symbol # inflight[2].symbol) =>
        \A t \in Threads :
            /\ Own(t).kind = "ok" =>
                /\ inflight[t].symbol \in DOMAIN trend_cache
                /\ trend_cache[inflight[t].symbol] = Own(t).val
            /\ Own(t).kind = "raise" =>
                inflight[t].symbol \notin DOMAIN trend_cache
            /\ inflight[t].ret = OwnResult(t).ret

\* Two calls for the two symbols, a confirmed buy and a confirmed sell: each
\* entry is its own call's analysis and each call returned its own signal.
C21_Witness ==
    /\ AllDone
    /\ inflight[1].symbol # inflight[2].symbol
    /\ inflight[1].ret # None /\ inflight[1].ret.signal_type = "buy"
    /\ inflight[2].ret # None /\ inflight[2].ret.signal_type = "sell"
    /\ trend_cache[inflight[1].symbol].d1_trend = BULLISH
    /\ trend_cache[inflight[2].symbol].d1_trend = BEARISH

\* C23: after two concurrent calls for the same symbol, in whatever order
\* their steps ran, the entry of the symbol is the analysis of one of the two
\* calls (of the one that returned an analysis when the other raised), and
\* each call returned the signal of its own analysis, whatever the cache
\* held.
C23_OneOfTheTwo ==
    (AllDone /\ inflight[1].symbol = inflight[2].symbol) =>
        /\ (\E t \in Threads : Own(t).kind = "ok") =>
            /\ inflight[1].symbol \in DOMAIN trend_cache
            /\ \E t \in Threads :
                /\ Own(t).kind = "ok"
                /\ trend_cache[inflight[1].symbol] = Own(t).val
        /\ \A t \in Threads : inflight[t].ret = OwnResult(t).ret

\* The lost update: thread 2 was invoked after thread 1 for the same symbol
\* with frames that give another analysis, both returned, and the entry is
\* the analysis of thread 1.
C23_Witness ==
    /\ AllDone
    /\ inflight[1].symbol = inflight[2].symbol
    /\ inflight[1].seq < inflight[2].seq
    /\ Own(1).kind = "ok" /\ Own(2).kind = "ok"
    /\ Own(1).val # Own(2).val
    /\ trend_cache[inflight[1].symbol] = Own(1).val
    /\ inflight[2].ret = OwnResult(2).ret
    /\ inflight[2].ret # OwnResult(1).ret

(***************************************************************************)
(* The application entry point, main.py: main() creates a                  *)
(* TradingSystemApp, awaits initialize() and start(), and awaits stop() in *)
(* its finally block.  `app` is the application object with the position   *)
(* of main() in pc.                                                        *)
(***************************************************************************)
\* config_file as main() determines it, main.py:217-222.
ConfigFiles ==
    {"custom.yaml", "config/development.yaml", "config/staging.yaml",
     "config/production.yaml"}

\* What load_config can return: the environment and the log level are
\* those the file and the process environment give.
LoadedConfigs ==
    [environment : {"development", "production"}, log_level : {"INFO", "DEBUG"}]

\* load_config raises FileNotFoundError for a missing file (config.py:157)
\* and a validation error for a file without a required section.
LoadOutcomes ==
    {Raise("FileNotFoundError"), Raise("ValidationError")}
        \cup {Ok(c) : c \in LoadedConfigs}

\* configure_logging creates the log directory and opens the log file
\* (logger.py:67-76): it raises OSError where it may not.
LoggingOutcomes == {Ok(None), Raise("OSError")}

\* The component initializers that initialize() awaits, main.py:62-66, by
\* the name each of them logs.
Components ==
    <<"database connections", "Kafka connections", "strategy engine",
      "order manager", "monitoring system">>

\* The signals that setup_signal_handlers handles, main.py:199-200.
Signals == {"SIGINT", "SIGTERM"}

TradingLogger == [kind |-> "TradingLogger", name |-> "main"]

\* self.logger.info(message)
Info(a, message) == [a EXCEPT !.logs = Append(@, message)]

\* TradingSystemApp(config_file), main.py:16-33 (the components, all None
\* and never assigned, are left out).
TradingSystemApp(config_file) ==
    [pc |-> "created", config_file |-> config_file, config |-> None,
     logger |-> None, running |-> FALSE, logs |-> << >>,
     component |-> 1, exit |-> None, stop |-> None]

\* main() creates no strategy: the engine is left None (main.py:106-114).
InitApp ==
    /\ config = None
    /\ trend_cache = EmptyDict
    /\ active_signals = EmptyDict
    /\ last = [op |-> "__init__"]
    /\ calls = 0
    /\ inflight = NoThreads
    /\ app \in {TradingSystemApp(f) : f \in ConfigFiles}

UnchangedStrategy ==
    UNCHANGED <<config, trend_cache, active_signals, last, calls, inflight>>

\* The handler of initialize(), main.py:70-77, logs or prints and raises
\* again; main() prints and calls sys.exit(1), main.py:233-235, and its
\* finally block follows.
InitializeFailed(a) ==
    [(IF a.logger # None
      THEN Info(a, "Failed to initialize trading system") ELSE a)
     EXCEPT !.pc = "finally", !.exit = [kind |-> "SystemExit", code |-> 1]]

\* initialize(), main.py:39-43.
LoadConfig ==
    /\ app.pc = "created"
    /\ \E r \in LoadOutcomes :
        app' = IF r.kind = "raise" THEN InitializeFailed(app)
               ELSE [app EXCEPT !.pc = "loaded", !.config = r.val]
    /\ UnchangedStrategy

\* initialize(), main.py:46-59.
ConfigureLogging ==
    /\ app.pc = "loaded"
    /\ \E r \in LoggingOutcomes :
        app' = IF r.kind = "raise" THEN InitializeFailed(app)
               ELSE Info([app EXCEPT !.pc = "logging",
                                     !.logger = TradingLogger],
                         "Starting trading system initialization")
    /\ UnchangedStrategy

\* One of the five initializers of main.py:79-135, and after the last of
\* them the closing message of initialize(), main.py:68.
InitializeComponent ==
    /\ app.pc = "logging"
    /\ LET name == Components[app.component]
           a == Info(Info(app, "Initializing " \o name), name \o " initialized")
       IN  app' = IF app.component < Len(Components)
                  THEN [a EXCEPT !.component = @ + 1]
                  ELSE Info([a EXCEPT !.pc = "initialized"],
                            "Trading system initialization completed successfully")
    /\ UnchangedStrategy

\* start() up to its loop, main.py:137-152.
Start ==
    /\ app.pc = "initialized"
    /\ app' = Info([Info(app, "Starting trading system")
                       EXCEPT !.running = TRUE, !.pc = "loop"],
                   "Trading system main loop started")
    /\ UnchangedStrategy

\* stop(), main.py:172-190: self.logger.info raises AttributeError on a
\* logger that is None, before running is assigned; the components are
\* None, so nothing is cleaned up.
stop(a) ==
    IF a.logger = None THEN Raise("AttributeError")
    ELSE Ok(Info([Info(a, "Stopping trading system") EXCEPT !.running = FALSE],
                 "Trading system stopped successfully"))

\* A signal during the loop: signal_handler logs and schedules stop(),
\* main.py:195-197, which runs at the next await of the loop.
Signal ==
    /\ app.pc = "loop"
    /\ app.running
    /\ \E signum \in Signals :
        app' = stop(Info(app, "Received signal " \o signum)).val
    /\ UnchangedStrategy

\* while self.running ends, main.py:155-158, and start() returns.
LoopExit ==
    /\ app.pc = "loop"
    /\ ~app.running
    /\ app' = [app EXCEPT !.pc = "finally"]
    /\ UnchangedStrategy

\* finally: await app.stop(), main.py:236-237.
Stop ==
    /\ app.pc = "finally"
    /\ LET r == stop(app)
       IN  app' = IF r.kind = "raise"
                  THEN [app EXCEPT !.pc = "exited", !.stop = r]
                  ELSE [r.val EXCEPT !.pc = "exited", !.stop = Ok(None)]
    /\ UnchangedStrategy

NextApp ==
    \/ LoadConfig
    \/ ConfigureLogging
    \/ InitializeComponent
    \/ Start
    \/ Signal
    \/ LoopExit
    \/ Stop

SpecApp == InitApp /\ [][NextApp]_vars

\* C29: the stop() of the finally block of main() completes without raising
\* in every state it is reached in, the one where initialize() failed with
\* the logger still None included, and leaves running false.
C29_StopNeverRaises ==
    app.pc = "exited" =>
        /\ app.stop = Ok(None)
        /\ app.running = FALSE

=============================================================================
